---- MODULE Spec2Model ----
(***************************************************************************)
(* Job admission and execution pipeline of the Gamescan API                *)
(* (src/server.js, lines 1-332): the in-memory queue with its concurrency  *)
(* ceiling, the analysis handler with its temporary files, the result      *)
(* cache and its hourly sweep.                                             *)
(*                                                                         *)
(* One action is one turn of the Node.js event loop: the code that runs    *)
(* from the arrival of an event (a request, the completion of an awaited   *)
(* I/O call, a timer) up to the next await.  The outcome of every external *)
(* call (file system, ffmpeg, OpenAI, the socket) is chosen by the         *)
(* environment.                                                            *)
(***************************************************************************)
EXTENDS Integers, Sequences, FiniteSets, TLC

\* ---------------------------------------------------------------- bounds
MaxJobs == 4        \* requests in one behaviour of the queue (SpecQueue)
MaxAnalyses == 2    \* requests in one behaviour of the whole pipeline (Spec)
MaxTime == 4        \* last value of the clock (SpecTtl)
MaxClock == 3       \* last value of the clock in Spec
MaxCalls == 2       \* calls of saveCache in one behaviour (SpecPersist)
MaxBoots == 1       \* restarts of the process in one behaviour
MaxSame == 4        \* requests for one key in one behaviour (SpecKey)
MaxFrames == 1      \* frame files one extraction can leave behind
MaxRequests == 5    \* requests that reach the rate limiter (SpecRate)
MaxTokens == 2      \* calls of /analyze/init in one behaviour (SpecToken)
MaxConfirms == 2    \* calls of /analyze/confirm in one behaviour (SpecToken)

\* ------------------------------------------------------------- constants
MAX_CONCURRENT == 2
MAX_CONCURRENT_DEFAULT == 3
MAX_QUEUE == 1
CACHE_TTL_DAYS == 1
tries == 3
FIRST_DELAY == 800
\* The rate limiter, scaled: the unit of its clock is half a window, and the
\* budget of part_006 is half the one of server.js, as 10 is of 20.
RATE_WINDOW_MS == 2
RATE_MAX == 2
RATE_MAX_006 == 1
\* The token flow of part_005, scaled: a token lasts two units of the clock
\* and its cleanup timer is due one unit later.
TOKEN_EXPIRY_MS == 2
CLEANUP_SLACK == 1

Jobs == 1..MaxJobs
Times == 1..MaxTime
Keys == {"h1", "h2"}

\* What a request carries: req.file, the required body fields, the media
\* kind of the uploaded bytes and the cache key its bytes and options give.
Inputs ==
    {[file |-> FALSE, fields |-> TRUE,  video |-> FALSE, key |-> "h1"],
     [file |-> TRUE,  fields |-> FALSE, video |-> TRUE,  key |-> "h1"],
     [file |-> TRUE,  fields |-> TRUE,  video |-> FALSE, key |-> "h1"],
     [file |-> TRUE,  fields |-> TRUE,  video |-> TRUE,  key |-> "h1"],
     [file |-> TRUE,  fields |-> TRUE,  video |-> TRUE,  key |-> "h2"]}
NoInput == [file |-> FALSE, fields |-> FALSE, video |-> FALSE, key |-> "h1"]

\* A cache entry is the response of the job that wrote it, its timestamp and
\* what its charts hold (charts[i].data, line 303): numbers, NaN, or the null
\* JSON.parse gives.
NoEntry == [by |-> 0, ts |-> 0, data |-> "none"]
NoResult == [kind |-> "none", by |-> 0]

\* Calls of saveCache in one behaviour; an inode is named after the call
\* that created it.
Calls == 1..MaxCalls
EmptyCache == [k \in Keys |-> NoEntry]
\* What a file holds: a JSON text, or a truncated text that does not parse.
\* The text of an object is the set of its members, <<name, value>>.
Partial == [ok |-> FALSE, data |-> {}]
Whole(text) == [ok |-> TRUE, data |-> text]

\* The focus areas a request can name (req.body.focusAreas, lines 202-204).
FocusAreas == {"aim", "overall", "constructor"}

\* Lines 298-304: the numbers of the chart of focus area a.  baseStats[a]
\* is a number for the four own keys, undefined (so 70) for a name the
\* object does not have, and a function for a name it inherits from
\* Object.prototype; a function plus a number is a string, and
\* Math.max(0, string) is NaN.
randomStats(a) ==
    IF a \in {"aim", "positioning", "movement", "editing"} THEN "numbers"
    ELSE IF a \in {"constructor", "toString", "valueOf"} THEN "NaN"
    ELSE "numbers"

\* JSON.stringify of one entry: numbers and strings are written as they
\* are, NaN is written as null.
toJSON(e) == IF e.data = "NaN" THEN [e EXCEPT !.data = "null"] ELSE e

\* JSON.stringify(Object.fromEntries(analysisCache), null, 2), line 111:
\* one member for each key the Map has.
JSONstringify(c) == {<<k, toJSON(c[k])>> : k \in {x \in Keys : c[x] # NoEntry}}

\* new Map(Object.entries(JSON.parse(text))), lines 102-103: one entry for
\* each member of the text.
JSONparse(text) ==
    [k \in Keys |->
        IF \E m \in text : m[1] = k
        THEN (CHOOSE m \in text : m[1] = k)[2]
        ELSE NoEntry]

VARIABLES
    queue,          \* the array `queue`: jobs waiting, head first
    running,        \* the counter `running`
    submitted,      \* number of requests that reached the route
    input,          \* input[j]: what request j carries
    pc,             \* pc[j]: the await request j's handler is suspended at
    result,         \* result[j]: what handleAnalysis returned or threw
    upload,         \* upload[j]: "none", "disk" or "deleted"
    unlinks,        \* unlinks[j]: unlink calls made on the upload of j
    frameDir,       \* frameDir[j]: name of the scratch directory, -1 if none
    frames,         \* frames[j]: frame files j listed and still has to unlink
    dirs,           \* dirs[t]: frame files in frames-t, {-1} when it is absent
    extracted,      \* extracted[j]: ffmpeg was started on the upload of j
    attempts,       \* attempts[j]: OpenAI requests made for j
    delay,          \* delay[j]: the variable `delay` of openaiRetry, in ms
    timer,          \* timer[j]: the setTimeout openaiRetry awaits, 0 if none
    sent,           \* sent[j]: the body written to res, "none" if none
    position,       \* position[j]: the position of the queued notice
    promise,        \* promise[j]: state of the promise enqueue returned
    stamp,          \* stamp[j]: the timestamp of the response data of j
    hitAtSubmit,    \* hitAtSubmit[j]: the key of j was cached when j arrived
    order,          \* jobs in the order processNext started them
    analysisCache,  \* the Map analysisCache, by key
    insertedAt,     \* insertedAt[k]: the clock at the last set of key k
    swept,          \* the sweep has run at this value of the clock
    now,            \* Date.now()
    alive,          \* the process is running
    boots,          \* number of times the process was started again
    cacheFile,      \* the inode CACHE_FILE names, 0 when there is no file
    tmpFile,        \* tmpFile[t]: the inode CACHE_FILE.tmp-t names, or 0
    content,        \* content[i]: what inode i holds
    ncalls,         \* calls of saveCache made so far
    cpc,            \* cpc[p]: the await call p of saveCache is suspended at
    cdata,          \* cdata[p]: the argument `data` of atomicWrite in call p
    ctmp,           \* ctmp[p]: the clock in the name `tmp` of call p
    cfd,            \* cfd[p]: the inode fs.writeFile opened in call p
    sigint,         \* the call of saveCache the SIGINT handler awaits, or 0
    maxConcurrent,  \* the constant MAX_CONCURRENT, read from the environment
    disconnected,   \* disconnected[j]: the client of j closed the connection
    route,          \* route[j]: what became of the route handler's promise
    rateBuckets,    \* the Map rateBuckets: for each IP, timestamps in order
    rateMax,        \* the constant RATE_MAX of the build
    admitted,       \* admitted[ip]: the times of all requests let through
    verdict,        \* what rateLimit did with the last request
    nreq,           \* requests that reached rateLimit
    tokenStore,     \* the Map tokenStore of part_005, by token
    issued,         \* tokens generated so far
    tokenFile,      \* tokenFile[t]: the upload entry.filePath names
    tokenDir,       \* tokenDir[t]: the directory entry.frameDir names
    tokenTimer,     \* tokenTimer[t]: when the cleanup timer is due, 0 if none
    confirmPc,      \* confirmPc[c]: the await confirm request c is suspended at
    confirmToken,   \* confirmToken[c]: the token of confirm request c
    confirmRes      \* confirmRes[c]: the response to confirm request c

vars == <<queue, running, submitted, input, pc, result, upload, unlinks,
          frameDir, frames, dirs, extracted, attempts,
          delay, timer, sent, position,
          promise, stamp, hitAtSubmit, order, analysisCache, insertedAt,
          swept, now, alive, boots, cacheFile, tmpFile, content, ncalls,
          cpc, cdata, ctmp, cfd, sigint, maxConcurrent, disconnected,
          route, rateBuckets, rateMax, admitted, verdict, nreq, tokenStore,
          issued, tokenFile, tokenDir, tokenTimer, confirmPc, confirmToken,
          confirmRes>>

\* What lies outside the queue, the analysis and the cache.
sideVars == <<route, rateBuckets, rateMax, admitted, verdict, nreq,
              tokenStore, issued, tokenFile, tokenDir, tokenTimer, confirmPc,
              confirmToken, confirmRes>>

\* The token flow of part_005.
tokenVars == <<tokenStore, issued, tokenFile, tokenDir, tokenTimer,
               confirmPc, confirmToken, confirmRes>>

Tokens == 1..MaxTokens
Confirms == 1..MaxConfirms
NoToken == [live |-> FALSE, expiresAt |-> 0]

\* The rate limiter.
rateVars == <<rateBuckets, rateMax, admitted, verdict, nreq>>

IPs == {"ip1", "ip2"}
NoVerdict == [ip |-> "ip1", at |-> 0, code |-> 0]

\* The queue and the analysis.
coreVars == <<queue, running, submitted, input, pc, result, upload, unlinks,
              frameDir, frames, dirs, extracted, attempts, delay, timer,
              sent, position, promise, stamp, hitAtSubmit, order,
              maxConcurrent, disconnected>>

\* The requests and their handlers.
pipeVars == <<coreVars, sideVars>>

\* The process, the cache file and the calls of saveCache.
diskVars == <<alive, boots, cacheFile, tmpFile, content, ncalls, cpc, cdata,
              ctmp, cfd, sigint>>

Absent == {-1}

\* The state after the module is loaded with MAX_CONCURRENT = m, but for
\* the constant RATE_MAX.
InitCore(m) ==
    /\ maxConcurrent = m
    /\ rateBuckets = [ip \in IPs |-> <<>>]
    /\ admitted = [ip \in IPs |-> <<>>]
    /\ verdict = NoVerdict
    /\ nreq = 0
    /\ tokenStore = [t \in Tokens |-> NoToken]
    /\ issued = 0
    /\ tokenFile = [t \in Tokens |-> "none"]
    /\ tokenDir = [t \in Tokens |-> "absent"]
    /\ tokenTimer = [t \in Tokens |-> 0]
    /\ confirmPc = [c \in Confirms |-> "idle"]
    /\ confirmToken = [c \in Confirms |-> 0]
    /\ confirmRes = [c \in Confirms |-> "none"]
    /\ disconnected = [j \in Jobs |-> FALSE]
    /\ route = [j \in Jobs |-> "pending"]
    /\ queue = <<>>
    /\ running = 0
    /\ submitted = 0
    /\ input = [j \in Jobs |-> NoInput]
    /\ pc = [j \in Jobs |-> "idle"]
    /\ result = [j \in Jobs |-> NoResult]
    /\ upload = [j \in Jobs |-> "none"]
    /\ unlinks = [j \in Jobs |-> 0]
    /\ frameDir = [j \in Jobs |-> -1]
    /\ frames = [j \in Jobs |-> {}]
    /\ dirs = [t \in Times |-> Absent]
    /\ extracted = [j \in Jobs |-> FALSE]
    /\ attempts = [j \in Jobs |-> 0]
    /\ delay = [j \in Jobs |-> 0]
    /\ timer = [j \in Jobs |-> 0]
    /\ sent = [j \in Jobs |-> "none"]
    /\ position = [j \in Jobs |-> 0]
    /\ promise = [j \in Jobs |-> "pending"]
    /\ stamp = [j \in Jobs |-> 0]
    /\ hitAtSubmit = [j \in Jobs |-> FALSE]
    /\ order = <<>>
    /\ analysisCache = [k \in Keys |-> NoEntry]
    /\ insertedAt = [k \in Keys |-> 0]
    /\ swept = FALSE
    /\ now = 1
    /\ alive = TRUE
    /\ boots = 0
    /\ cacheFile = 0
    /\ tmpFile = [t \in Times |-> 0]
    /\ content = [i \in Calls |-> Partial]
    /\ ncalls = 0
    /\ cpc = [p \in Calls |-> "idle"]
    /\ cdata = [p \in Calls |-> {}]
    /\ ctmp = [p \in Calls |-> 0]
    /\ cfd = [p \in Calls |-> 0]
    /\ sigint = 0

\* The state after server.js is loaded with MAX_CONCURRENT = m.
InitWith(m) == InitCore(m) /\ rateMax = RATE_MAX

\* Line 33 with MAX_CONCURRENT=2 in the environment.
Init == InitWith(MAX_CONCURRENT)

\* Line 33 with no MAX_CONCURRENT in the environment.
InitDefault == InitWith(MAX_CONCURRENT_DEFAULT)

\* ----------------------------------------------------------------- queue
\* enqueue, line 141: the caller is told to wait when no slot is free.
MustWait(r) == r >= maxConcurrent

\* Variant of Position: the index counted from 0.
Position_zeroBased(q) == Len(q) - 1

\* enqueue, line 142: the position reported, taken after the push.
Position(q) == Len(q)

\* Variant of processNext: the ceiling test is off by one.
processNext_offByOne(q, r) ==
    IF r > maxConcurrent \/ Len(q) = 0
    THEN [queue |-> q, running |-> r, job |-> 0]
    ELSE [queue |-> Tail(q), running |-> r + 1, job |-> Head(q)]

\* Variant of processNext: queue.pop() instead of queue.shift().
processNext_pop(q, r) ==
    IF r >= maxConcurrent \/ Len(q) = 0
    THEN [queue |-> q, running |-> r, job |-> 0]
    ELSE [queue |-> SubSeq(q, 1, Len(q) - 1), running |-> r + 1,
          job |-> q[Len(q)]]

\* Variant of processNext: the head is read with queue[0] and stays in the
\* queue.
processNext_peek(q, r) ==
    IF r >= maxConcurrent \/ Len(q) = 0
    THEN [queue |-> q, running |-> r, job |-> 0]
    ELSE [queue |-> q, running |-> r + 1, job |-> Head(q)]

\* processNext, lines 150-151: nothing when the ceiling is reached or the
\* queue is empty, otherwise the head is shifted out and running is raised.
processNext(q, r) ==
    IF r >= maxConcurrent \/ Len(q) = 0
    THEN [queue |-> q, running |-> r, job |-> 0]
    ELSE [queue |-> Tail(q), running |-> r + 1, job |-> Head(q)]

\* Variant of finally: the slot is not given back.
finally_noRelease(q, r) == processNext(q, r)

\* Variant of finally: the queue is not looked at again.
finally_noDispatch(q, r) == [queue |-> q, running |-> r - 1, job |-> 0]

\* processNext, line 160: the finally handler gives the slot back and looks
\* at the queue again.
finally(q, r) == processNext(q, r - 1)

\* handleAnalysis, line 191: the check made before the first await.
MissingFields(inp) == ~inp.file \/ ~inp.fields

\* processNext, line 153: job.jobFn() runs handleAnalysis up to its first
\* await, which is the file type probe unless the fields are missing.
StartPc(inp) == IF MissingFields(inp) THEN "settle" ELSE "fileType"
StartResult(inp) ==
    IF MissingFields(inp) THEN [kind |-> "missing", by |-> 0] ELSE NoResult

\* The job processNext started, if any (0 when none), enters handleAnalysis.
Started(k, inputs, pcs) ==
    /\ pc' = IF k = 0 THEN pcs ELSE [pcs EXCEPT ![k] = StartPc(inputs[k])]
    /\ result' = IF k = 0 THEN result
                 ELSE [result EXCEPT ![k] = StartResult(inputs[k])]
    /\ order' = IF k = 0 THEN order ELSE Append(order, k)

\* ----------------------------------------------------------------- cache
\* Variant of CacheHas: the lookup never hits.
CacheHas_never(c, k) == FALSE

\* handleAnalysis, line 208: analysisCache.has(cacheKey).
CacheHas(c, k) == c[k] # NoEntry

\* Line 115, with a day as the unit of the clock.
ttl == CACHE_TTL_DAYS * 1

\* Variant of Expired: an entry goes as soon as it is as old as the TTL.
Expired_atTtl(e, t) == e # NoEntry /\ e.ts # 0 /\ t - e.ts >= ttl

\* The sweep, lines 115-119: an entry goes when it has a timestamp and is
\* older than the TTL (a day is the unit of the clock).
Expired(e, t) == e # NoEntry /\ e.ts # 0 /\ t - e.ts > ttl

\* ---------------------------------------------------------------- actions
\* POST /analyze, line 326, and enqueue, lines 137-148.
Submit(inp, limit) ==
    /\ submitted < limit
    /\ LET j == submitted + 1
           q1 == Append(queue, j)
           pn == processNext(q1, running)
       IN
        /\ submitted' = j
        /\ input' = [input EXCEPT ![j] = inp]
        /\ upload' = [upload EXCEPT ![j] = IF inp.file THEN "disk" ELSE "none"]
        /\ hitAtSubmit' = [hitAtSubmit EXCEPT ![j] =
              inp.file /\ inp.fields /\ inp.video
              /\ analysisCache[inp.key] # NoEntry]
        /\ sent' = [sent EXCEPT ![j] =
              IF MustWait(running) THEN "queued" ELSE "none"]
        /\ position' = [position EXCEPT ![j] =
              IF MustWait(running) THEN Position(q1) ELSE 0]
        /\ queue' = pn.queue
        /\ running' = pn.running
        /\ Started(pn.job, input', [pc EXCEPT ![j] = "queued"])
    /\ UNCHANGED <<unlinks, frameDir, frames, dirs, extracted, attempts,
                   delay, timer, promise, stamp, analysisCache, insertedAt,
                   swept, now, maxConcurrent, disconnected, sideVars>>
    /\ UNCHANGED diskVars

\* A step of handleAnalysis that neither ends it nor touches the disk.
Goto(j, label) ==
    /\ pc' = [pc EXCEPT ![j] = label]
    /\ UNCHANGED <<queue, running, submitted, input, order, sent, position,
                   promise, hitAtSubmit, swept, now, maxConcurrent,
                   disconnected, sideVars>>
    /\ UNCHANGED diskVars

\* handleAnalysis returns or throws: the promise of jobFn is settled and
\* the locals of the call are gone.
Returned(j, r) ==
    /\ pc' = [pc EXCEPT ![j] = "settle"]
    /\ result' = [result EXCEPT ![j] = r]
    /\ frameDir' = [frameDir EXCEPT ![j] = -1]
    /\ frames' = [frames EXCEPT ![j] = {}]
    /\ stamp' = [stamp EXCEPT ![j] = 0]
    /\ UNCHANGED <<queue, running, submitted, input, order, sent, position,
                   promise, hitAtSubmit, swept, now, maxConcurrent,
                   disconnected, sideVars>>

\* The same, in a step that leaves the cache file alone.
Return(j, r) ==
    /\ Returned(j, r)
    /\ UNCHANGED diskVars

Thrown == [kind |-> "throw", by |-> 0]

\* Lines 194-200: fileTypeFromFile answers or throws; a throw is swallowed
\* by the empty catch and the upload is taken for a video.
FileType(j, throws) ==
    /\ pc[j] = "fileType"
    /\ Goto(j, IF throws \/ input[j].video THEN "sha256" ELSE "unlinkInvalid")
    /\ UNCHANGED <<result, upload, unlinks, frameDir, frames, dirs, extracted,
                   attempts, delay, timer, stamp, analysisCache, insertedAt>>

\* Lines 197-198: the upload that is no video is unlinked.
UnlinkInvalid(j) ==
    /\ pc[j] = "unlinkInvalid"
    /\ upload' = [upload EXCEPT ![j] = "deleted"]
    /\ unlinks' = [unlinks EXCEPT ![j] = @ + 1]
    /\ Return(j, [kind |-> "invalid", by |-> 0])
    /\ UNCHANGED <<dirs, extracted, attempts,
                   delay, timer, analysisCache, insertedAt>>

\* Lines 206-213: the hash is ready (or reading the upload failed); on a
\* hit the upload is unlinked, on a miss ffmpeg is started on it.
Sha256(j, ok) ==
    /\ pc[j] = "sha256"
    /\ IF ~ok
       THEN Return(j, Thrown) /\ UNCHANGED extracted
       ELSE IF CacheHas(analysisCache, input[j].key)
       THEN /\ Goto(j, "unlinkHit")
            /\ UNCHANGED <<result, extracted, frameDir, frames, stamp>>
       ELSE /\ Goto(j, "keyMoments")
            /\ extracted' = [extracted EXCEPT ![j] = TRUE]
            /\ UNCHANGED <<result, frameDir, frames, stamp>>
    /\ UNCHANGED <<upload, unlinks, dirs, attempts,
                   delay, timer, analysisCache, insertedAt>>

\* Lines 209-210: after the unlink, the entry read now is returned with
\* cached:true; an entry swept meanwhile spreads as nothing.
UnlinkHit(j) ==
    /\ pc[j] = "unlinkHit"
    /\ upload' = [upload EXCEPT ![j] = "deleted"]
    /\ unlinks' = [unlinks EXCEPT ![j] = @ + 1]
    /\ Return(j, [kind |-> "cached", by |-> analysisCache[input[j].key].by])
    /\ UNCHANGED <<dirs, extracted, attempts,
                   delay, timer, analysisCache, insertedAt>>

\* Lines 215-226: scene detection ended (its failure is swallowed); the
\* scratch directory is named after the clock and mkdir is called.
KeyMoments(j) ==
    /\ pc[j] = "keyMoments"
    /\ frameDir' = [frameDir EXCEPT ![j] = now]
    /\ Goto(j, "mkdir")
    /\ UNCHANGED <<result, upload, unlinks, frames, dirs, extracted, attempts,
                   delay, timer,
                   stamp, analysisCache, insertedAt>>

\* Lines 226-237: mkdir ended; when it failed the handler throws, otherwise
\* the directory exists and the frame extraction is started.
Mkdir(j, ok) ==
    /\ pc[j] = "mkdir"
    /\ IF ~ok
       THEN Return(j, Thrown) /\ UNCHANGED dirs
       ELSE /\ Goto(j, "extract")
            /\ dirs' = [dirs EXCEPT ![frameDir[j]] =
                            IF @ = Absent THEN {} ELSE @]
            /\ UNCHANGED <<result, frameDir, frames, stamp>>
    /\ UNCHANGED <<upload, unlinks, extracted, attempts,
                   delay, timer, analysisCache,
                   insertedAt>>

\* Lines 233-239: ffmpeg ended, by itself, by an error or, when it hangs,
\* by the timeout of exec (lines 168-172), having written frame-01 ..
\* frame-n; the upload is unlinked.
Extract(j, n) ==
    /\ pc[j] \in {"extract", "extractHung"}
    /\ dirs' = [dirs EXCEPT ![frameDir[j]] =
                    IF @ = Absent THEN Absent ELSE @ \cup (1..n)]
    /\ Goto(j, "unlinkUpload")
    /\ UNCHANGED <<result, upload, unlinks, frameDir, frames, extracted,
                   attempts, delay, timer, stamp, analysisCache, insertedAt>>

\* Lines 239-290: the upload is unlinked, the frame files are listed
\* (readdirSync throws when the directory is gone) and the first OpenAI
\* request is made.
UnlinkUpload(j) ==
    /\ pc[j] = "unlinkUpload"
    /\ upload' = [upload EXCEPT ![j] = "deleted"]
    /\ unlinks' = [unlinks EXCEPT ![j] = @ + 1]
    /\ IF dirs[frameDir[j]] = Absent
       THEN Return(j, Thrown) /\ UNCHANGED <<attempts, delay, timer>>
       ELSE /\ Goto(j, "openai")
            /\ frames' = [frames EXCEPT ![j] = dirs[frameDir[j]]]
            /\ attempts' = [attempts EXCEPT ![j] = 1]
            /\ delay' = [delay EXCEPT ![j] = FIRST_DELAY]
            /\ UNCHANGED timer
            /\ UNCHANGED <<result, frameDir, stamp>>
    /\ UNCHANGED <<dirs, extracted, analysisCache, insertedAt>>

\* Variant of LastTry: the loop gives up one request too late.
LastTry_oneMore(n) == n = tries + 1

\* openaiRetry, lines 176-180: a failed request is the last one when
\* i = tries - 1, that is when `tries` requests have been made.
LastTry(n) == n = tries

\* Variant of Doubled: every wait is as long as the first.
Doubled_same(d) == d

\* Line 179: delay*=2.
Doubled(d) == d * 2

\* Lines 177-179 and 292-312: a request ended.  Success builds the response
\* data (timestamp included) and begins the cleanup; the last failure is
\* thrown; any other failure starts a timer of `delay` ms and doubles
\* `delay`.
OpenAI(j, ok) ==
    /\ pc[j] = "openai"
    /\ IF ok
       THEN /\ Goto(j, IF frames[j] = {} THEN "rmDir" ELSE "unlinkFrame")
            /\ stamp' = [stamp EXCEPT ![j] = now]
            /\ UNCHANGED <<result, frameDir, frames>>
            /\ UNCHANGED <<delay, timer>>
       ELSE IF LastTry(attempts[j])
       THEN Return(j, Thrown) /\ UNCHANGED <<delay, timer>>
       ELSE /\ Goto(j, "backoff")
            /\ timer' = [timer EXCEPT ![j] = delay[j]]
            /\ delay' = [delay EXCEPT ![j] = Doubled(@)]
            /\ UNCHANGED <<result, frameDir, frames, stamp>>
    /\ UNCHANGED <<upload, unlinks, dirs, extracted, attempts,
                   analysisCache, insertedAt>>

\* Line 179: the backoff timer fired, the next request is made.
Backoff(j) ==
    /\ pc[j] = "backoff"
    /\ attempts' = [attempts EXCEPT ![j] = @ + 1]
    /\ timer' = [timer EXCEPT ![j] = 0]
    /\ UNCHANGED delay
    /\ Goto(j, "openai")
    /\ UNCHANGED <<result, upload, unlinks, frameDir, frames, dirs,
                   extracted, stamp, analysisCache, insertedAt>>

Min(S) == CHOOSE x \in S : \A y \in S : x <= y

\* Line 312: one listed frame file is unlinked (an error is swallowed).
UnlinkFrame(j) ==
    /\ pc[j] = "unlinkFrame"
    /\ LET f == Min(frames[j]) IN
        /\ frames' = [frames EXCEPT ![j] = @ \ {f}]
        /\ dirs' = [dirs EXCEPT ![frameDir[j]] =
                        IF @ = Absent THEN Absent ELSE @ \ {f}]
        /\ Goto(j, IF frames[j] = {f} THEN "rmDir" ELSE "unlinkFrame")
    /\ UNCHANGED <<result, upload, unlinks, frameDir, extracted, attempts,
                   delay, timer,
                   stamp, analysisCache, insertedAt>>

\* Variant of CacheSet: the response data is returned and not stored.
CacheSet_skip(c, k, j, t) == c

\* Variant of CacheSet: the Map is replaced by one with the new entry only.
CacheSet_only(c, k, j, t) ==
    [x \in Keys |->
        IF x = k THEN [by |-> j, ts |-> t, data |-> "numbers"] ELSE NoEntry]

\* Line 314: analysisCache.set(cacheKey, responseData).
CacheSet(c, k, j, t) ==
    [c EXCEPT ![k] = [by |-> j, ts |-> t, data |-> "numbers"]]

\* Variant of Completed: something throws between the cache write and the
\* return.
Completed_throws(j) == [kind |-> "throw", by |-> 0]

\* Lines 315-316: after the cache write nothing can throw; the response
\* data is returned.
Completed(j) == [kind |-> "ok", by |-> j]

\* Lines 313-316: the scratch directory is removed with what it holds, the
\* response data is cached and returned.  saveCache() is started and not
\* awaited, and catches what it throws: what it does to the cache file is
\* left to Set.
RmDir(j) ==
    /\ pc[j] = "rmDir"
    /\ dirs' = [dirs EXCEPT ![frameDir[j]] = Absent]
    /\ analysisCache' = CacheSet(analysisCache, input[j].key, j, stamp[j])
    /\ insertedAt' = [insertedAt EXCEPT ![input[j].key] = now]
    /\ Return(j, Completed(j))
    /\ UNCHANGED <<upload, unlinks, extracted, attempts, delay, timer>>

\* jobFn seen from the queue: the promise processNext got from job.jobFn()
\* settles with r.  enqueue and processNext take any jobFn; what
\* handleAnalysis does before it settles is left to Spec.
JobFn(j, r) ==
    /\ pc[j] = "fileType"
    /\ Return(j, r)
    /\ UNCHANGED <<upload, unlinks, dirs, extracted, attempts,
                   delay, timer, analysisCache,
                   insertedAt>>

\* Variant of Respond: the body is written whatever was sent before.
Respond_unguarded(s, body) == body

\* Lines 154 and 157, `if(!job.res.headersSent) job.res...json(body)`: the
\* body is written when nothing was sent on this response, s being what
\* was sent.
Respond(s, body) == IF s = "none" THEN body ELSE s

\* processNext, lines 154-160: the reactions to the promise of jobFn.
\* json1 and json2 tell whether res.json in the then handler and in the
\* catch handler returns (TRUE) or throws.
Settle(j, json1, json2) ==
    /\ pc[j] = "settle"
    /\ LET threw == result[j].kind = "throw"
           open == sent[j] = "none"
           inCatch == threw \/ (open /\ ~json1)
           fin == finally(queue, running)
       IN
        /\ sent' = [sent EXCEPT ![j] =
              IF ~inCatch THEN Respond(@, "result")
              ELSE IF json2 THEN Respond(@, "error") ELSE @]
        /\ promise' = [promise EXCEPT ![j] =
              IF ~inCatch THEN "resolved"
              ELSE IF open /\ ~json2 THEN "pending" ELSE "rejected"]
        /\ queue' = fin.queue
        /\ running' = fin.running
        /\ Started(fin.job, input, [pc EXCEPT ![j] = "done"])
    /\ UNCHANGED <<submitted, input, upload, unlinks, frameDir, frames, dirs,
                   extracted, attempts, delay, timer, position, stamp,
                   hitAtSubmit, analysisCache, insertedAt, swept, now,
                   maxConcurrent, disconnected, sideVars>>
    /\ UNCHANGED diskVars

\* The hourly sweep, lines 114-121, as far as the requests see it: the
\* file it may write is left to SweepSave.  A timer callback does not run
\* between the settling of a promise and the handlers chained to it.
Sweep ==
    /\ \A j \in Jobs : pc[j] # "settle"
    /\ analysisCache' = [k \in Keys |->
          IF Expired(analysisCache[k], now) THEN NoEntry ELSE analysisCache[k]]
    /\ swept' = TRUE
    /\ UNCHANGED <<pipeVars, insertedAt, now, diskVars>>

\* Time passes.  The timer of line 114 fires every hour and the unit of the
\* clock is a day: while the process runs, the clock does not move on
\* before the sweep has run.
Tick(limit) ==
    /\ now < limit
    /\ swept \/ ~alive
    /\ now' = now + 1
    /\ swept' = FALSE
    /\ UNCHANGED <<pipeVars, analysisCache, insertedAt, diskVars>>

Next ==
    \/ \E inp \in Inputs : Submit(inp, MaxAnalyses)
    \/ \E j \in Jobs, throws \in BOOLEAN : FileType(j, throws)
    \/ \E j \in Jobs : UnlinkInvalid(j)
    \/ \E j \in Jobs, ok \in BOOLEAN : Sha256(j, ok)
    \/ \E j \in Jobs : UnlinkHit(j)
    \/ \E j \in Jobs : KeyMoments(j)
    \/ \E j \in Jobs, ok \in BOOLEAN : Mkdir(j, ok)
    \/ \E j \in Jobs, n \in 0..MaxFrames : Extract(j, n)
    \/ \E j \in Jobs : UnlinkUpload(j)
    \/ \E j \in Jobs, ok \in BOOLEAN : OpenAI(j, ok)
    \/ \E j \in Jobs : Backoff(j)
    \/ \E j \in Jobs : UnlinkFrame(j)
    \/ \E j \in Jobs : RmDir(j)
    \/ \E j \in Jobs, json1 \in BOOLEAN, json2 \in BOOLEAN :
          Settle(j, json1, json2)
    \/ Sweep
    \/ Tick(MaxClock)

Spec == Init /\ [][Next]_vars

\* The queue alone, under any jobFn: one that returns before its first
\* await (the fields are missing) and one that settles later.
QueueInputs ==
    {[file |-> TRUE, fields |-> FALSE, video |-> TRUE, key |-> "h1"],
     [file |-> TRUE, fields |-> TRUE,  video |-> TRUE, key |-> "h1"]}

NextQueue ==
    \/ \E inp \in QueueInputs : Submit(inp, MaxJobs)
    \/ \E j \in Jobs, k \in {"ok", "throw"} : JobFn(j, [kind |-> k, by |-> 0])
    \/ \E j \in Jobs, json1 \in BOOLEAN, json2 \in BOOLEAN :
          Settle(j, json1, json2)

SpecQueue == Init /\ [][NextQueue]_vars

\* The queue when every running job terminates: the promise of jobFn
\* settles, and the handlers processNext chained to it run.
SpecQueueFair ==
    /\ SpecQueue
    /\ WF_vars(\E j \in Jobs, k \in {"ok", "throw"} :
                  JobFn(j, [kind |-> k, by |-> 0]))
    /\ WF_vars(\E j \in Jobs, json1 \in BOOLEAN, json2 \in BOOLEAN :
                  Settle(j, json1, json2))

\* The client of a request that waits in the queue closes the connection.
\* No listener is registered for it (lines 137-161, 325-326): the queue and
\* the job are as before.
Disconnect(j) ==
    /\ pc[j] = "queued" /\ ~disconnected[j]
    /\ disconnected' = [disconnected EXCEPT ![j] = TRUE]
    /\ UNCHANGED <<queue, running, submitted, input, pc, result, upload,
                   unlinks, frameDir, frames, dirs, extracted, attempts,
                   delay, timer, sent,
                   position, promise, stamp, hitAtSubmit, order,
                   maxConcurrent, analysisCache, insertedAt, swept, now,
                   diskVars, sideVars>>

NextDisconnect ==
    \/ \E inp \in QueueInputs : Submit(inp, MaxJobs)
    \/ \E j \in Jobs, k \in {"ok", "throw"} : JobFn(j, [kind |-> k, by |-> 0])
    \/ \E j \in Jobs : Settle(j, TRUE, TRUE)
    \/ \E j \in Jobs : Disconnect(j)

SpecDisconnect == Init /\ [][NextDisconnect]_vars

\* What becomes of the rejected promise of a route handler.  The handler of
\* lines 325-326 has no catch and no listener for unhandledRejection is
\* registered.  Express 5 passes the error to its error handler; Express 4
\* ignores what the handler returns, and Node then reports the rejection
\* with a warning (before version 15) or ends the process (since version
\* 15).  The sources fix neither version.
Runtimes == {"handled", "warned", "fatal"}

\* Lines 325-326: `await enqueue(...)` ends in the route handler of request
\* j.  With the promise resolved the handler returns; with the promise
\* rejected the await throws, the promise of the handler is rejected and
\* the runtime rt deals with it.
Route(j, rt) ==
    /\ alive /\ route[j] = "pending" /\ promise[j] # "pending"
    /\ route' = [route EXCEPT ![j] =
          IF promise[j] = "resolved" THEN "returned"
          ELSE IF rt = "handled" THEN "handled" ELSE "unhandled"]
    /\ alive' = (promise[j] = "resolved" \/ rt # "fatal")
    /\ UNCHANGED <<coreVars, analysisCache, insertedAt, swept, now, boots,
                   cacheFile, tmpFile, content, ncalls, cpc, cdata, ctmp,
                   cfd, sigint, rateVars, tokenVars>>

\* The continuation of an await runs before the next request, timer or
\* I/O callback is served.
Drained == \A j \in Jobs : promise[j] = "pending" \/ route[j] # "pending"

\* The queue with the route handlers, while the process runs.
NextReject ==
    \/ \E inp \in QueueInputs : alive /\ Drained /\ Submit(inp, MaxJobs)
    \/ \E j \in Jobs, k \in {"ok", "throw"} :
          alive /\ Drained /\ JobFn(j, [kind |-> k, by |-> 0])
    \/ \E j \in Jobs, json1 \in BOOLEAN, json2 \in BOOLEAN :
          alive /\ Drained /\ Settle(j, json1, json2)
    \/ \E j \in Jobs, rt \in Runtimes : Route(j, rt)

SpecReject == Init /\ [][NextReject]_vars

\* ------------------------------------------------------ the rate limiter
\* Variant of TooMany: one request more is let through.
TooMany_strict(n, max) == n > max

\* Line 130, `arr.length>=RATE_MAX` (part_006 line 64).
TooMany(n, max) == n >= max

\* Line 129 (part_006 line 63): the timestamps of arr younger than the
\* window at time t.
Young(arr, t) == SelectSeq(arr, LAMBDA x : t - x < RATE_WINDOW_MS)

\* rateLimit, lines 126-133 (part_006 lines 60-70), for a request of
\* address ip that arrives dt units of time after the one before it: with
\* too many young timestamps it answers 429 and stores nothing; otherwise
\* it stores the young timestamps and the new one and calls next().
rateLimit(ip, dt) ==
    /\ nreq < MaxRequests /\ now + dt <= MaxTime
    /\ nreq' = nreq + 1
    /\ now' = now + dt
    /\ LET arr == Young(rateBuckets[ip], now') IN
        IF TooMany(Len(arr), rateMax)
        THEN /\ verdict' = [ip |-> ip, at |-> now', code |-> 429]
             /\ UNCHANGED <<rateBuckets, admitted>>
        ELSE /\ verdict' = [ip |-> ip, at |-> now', code |-> 200]
             /\ rateBuckets' = [rateBuckets EXCEPT ![ip] = Append(arr, now')]
             /\ admitted' = [admitted EXCEPT ![ip] = Append(@, now')]
    /\ UNCHANGED <<coreVars, route, rateMax, analysisCache, insertedAt,
                   swept, diskVars, tokenVars>>

\* The limiter alone, in the build of server.js (RATE_MAX=20) or in the
\* one of part_006 (RATE_MAX=10).
InitRate == InitCore(MAX_CONCURRENT) /\ rateMax \in {RATE_MAX, RATE_MAX_006}

NextRate == \E ip \in IPs, dt \in {0, 1} : rateLimit(ip, dt)

SpecRate == InitRate /\ [][NextRate]_vars

\* --------------------------------------- the token flow of unnamed/part_005
\* What the token flow leaves alone.
tokenRest == <<coreVars, route, rateVars, analysisCache, insertedAt, swept,
               diskVars>>

\* POST /analyze/init, part_005 lines 122-162, for a request with all its
\* fields: multer has stored the upload, the entry is set with its expiry
\* time and the cleanup timer is scheduled (lines 36-46, 148).
AnalyzeInit ==
    /\ issued < MaxTokens
    /\ LET t == issued + 1 IN
        /\ issued' = t
        /\ tokenStore' = [tokenStore EXCEPT ![t] =
              [live |-> TRUE, expiresAt |-> now + TOKEN_EXPIRY_MS]]
        /\ tokenFile' = [tokenFile EXCEPT ![t] = "disk"]
        /\ tokenTimer' = [tokenTimer EXCEPT ![t] =
              now + TOKEN_EXPIRY_MS + CLEANUP_SLACK]
    /\ UNCHANGED <<tokenDir, confirmPc, confirmToken, confirmRes, now,
                   tokenRest>>

\* Lines 39-43 and 171-175: the upload and the frame directory of an entry
\* are removed, when they exist, and the entry is deleted.
Discard(t) ==
    /\ tokenFile' = [tokenFile EXCEPT ![t] = "deleted"]
    /\ tokenDir' = [tokenDir EXCEPT ![t] = "absent"]
    /\ tokenStore' = [tokenStore EXCEPT ![t] = NoToken]

\* The callback of scheduleTokenCleanup, lines 37-45, at or after its due
\* time: an entry that is still in the store is discarded.
TokenCleanup(t) ==
    /\ tokenTimer[t] # 0 /\ now >= tokenTimer[t]
    /\ tokenTimer' = [tokenTimer EXCEPT ![t] = 0]
    /\ IF tokenStore[t].live
       THEN Discard(t)
       ELSE UNCHANGED <<tokenStore, tokenFile, tokenDir>>
    /\ UNCHANGED <<issued, confirmPc, confirmToken, confirmRes, now,
                   tokenRest>>

\* Line 170: Date.now() > entry.expiresAt.
Expired005(e, t) == t > e.expiresAt

\* POST /analyze/confirm, lines 165-184, for token t (a token that was
\* never issued has no entry): without a live entry, or with an expired
\* one, the answer is 400, an expired entry being discarded; otherwise
\* ffprobe is started on the upload.
Confirm(c, t) ==
    /\ confirmPc[c] = "idle"
    /\ \A d \in Confirms : d < c => confirmPc[d] # "idle"
    /\ confirmToken' = [confirmToken EXCEPT ![c] = t]
    /\ IF ~tokenStore[t].live \/ Expired005(tokenStore[t], now)
       THEN /\ confirmPc' = [confirmPc EXCEPT ![c] = "done"]
            /\ confirmRes' = [confirmRes EXCEPT ![c] = "400"]
            /\ IF tokenStore[t].live
               THEN Discard(t)
               ELSE UNCHANGED <<tokenStore, tokenFile, tokenDir>>
       ELSE /\ confirmPc' = [confirmPc EXCEPT ![c] = "duration"]
            /\ UNCHANGED <<confirmRes, tokenStore, tokenFile, tokenDir>>
    /\ UNCHANGED <<issued, tokenTimer, now, tokenRest>>

\* Lines 184-188: ffprobe ended.  It fails on a file that is gone.  On its
\* error the catch of line 198 is entered and the cleanup of lines 194-196
\* is skipped; otherwise the frame directory is made and ffmpeg started.
ConfirmDuration(c, ok) ==
    /\ confirmPc[c] = "duration"
    /\ LET t == confirmToken[c] IN
        IF ok /\ tokenFile[t] = "disk"
        THEN /\ tokenDir' = [tokenDir EXCEPT ![t] = "present"]
             /\ confirmPc' = [confirmPc EXCEPT ![c] = "extract"]
        ELSE /\ confirmPc' = [confirmPc EXCEPT ![c] = "openai"]
             /\ UNCHANGED tokenDir
    /\ UNCHANGED <<tokenStore, issued, tokenFile, tokenTimer, confirmToken,
                   confirmRes, now, tokenRest>>

\* Lines 189-191 and 58-72: ffmpeg ended.  On its error, or when the frame
\* directory cannot be read, the catch of line 198 is entered; otherwise
\* the key moments are looked for.
ConfirmExtract(c, ok) ==
    /\ confirmPc[c] = "extract"
    /\ confirmPc' = [confirmPc EXCEPT ![c] =
          IF ok /\ tokenDir[confirmToken[c]] = "present"
          THEN "keyMoments" ELSE "openai"]
    /\ UNCHANGED <<tokenStore, issued, tokenFile, tokenDir, tokenTimer,
                   confirmToken, confirmRes, now, tokenRest>>

\* Lines 191-196: detectKeyMomentsFFmpeg resolved (it never rejects); the
\* frames, the frame directory and the upload are removed, each error
\* swallowed, and the OpenAI request is made.
ConfirmKeyMoments(c) ==
    /\ confirmPc[c] = "keyMoments"
    /\ LET t == confirmToken[c] IN
        /\ tokenDir' = [tokenDir EXCEPT ![t] = "absent"]
        /\ tokenFile' = [tokenFile EXCEPT ![t] = "deleted"]
    /\ confirmPc' = [confirmPc EXCEPT ![c] = "openai"]
    /\ UNCHANGED <<tokenStore, issued, tokenTimer, confirmToken, confirmRes,
                   now, tokenRest>>

\* Lines 225-266: the OpenAI request ended; failed or not (lines 235-238),
\* the token is deleted from the store and the analysis is sent.
ConfirmOpenAI(c) ==
    /\ confirmPc[c] = "openai"
    /\ tokenStore' = [tokenStore EXCEPT ![confirmToken[c]] = NoToken]
    /\ confirmPc' = [confirmPc EXCEPT ![c] = "done"]
    /\ confirmRes' = [confirmRes EXCEPT ![c] = "success"]
    /\ UNCHANGED <<issued, tokenFile, tokenDir, tokenTimer, confirmToken,
                   now, tokenRest>>

\* Time passes.
TickToken ==
    /\ now < MaxTime
    /\ now' = now + 1
    /\ UNCHANGED <<tokenVars, tokenRest>>

NextToken ==
    \/ AnalyzeInit
    \/ \E t \in Tokens : TokenCleanup(t)
    \/ \E c \in Confirms, t \in Tokens : Confirm(c, t)
    \/ \E c \in Confirms, ok \in BOOLEAN : ConfirmDuration(c, ok)
    \/ \E c \in Confirms, ok \in BOOLEAN : ConfirmExtract(c, ok)
    \/ \E c \in Confirms : ConfirmKeyMoments(c)
    \/ \E c \in Confirms : ConfirmOpenAI(c)
    \/ TickToken

SpecToken == Init /\ [][NextToken]_vars

\* The cache and its sweep over a longer time: every request carries the
\* same video and every call made for it succeeds.
TtlInputs == {[file |-> TRUE, fields |-> TRUE, video |-> TRUE, key |-> "h1"]}

NextTtl ==
    \/ \E inp \in TtlInputs : Submit(inp, MaxAnalyses)
    \/ \E j \in Jobs : FileType(j, FALSE)
    \/ \E j \in Jobs : Sha256(j, TRUE)
    \/ \E j \in Jobs : UnlinkHit(j)
    \/ \E j \in Jobs : KeyMoments(j)
    \/ \E j \in Jobs : Mkdir(j, TRUE)
    \/ \E j \in Jobs : Extract(j, MaxFrames)
    \/ \E j \in Jobs : UnlinkUpload(j)
    \/ \E j \in Jobs : OpenAI(j, TRUE)
    \/ \E j \in Jobs : UnlinkFrame(j)
    \/ \E j \in Jobs : RmDir(j)
    \/ \E j \in Jobs : Settle(j, TRUE, TRUE)
    \/ Sweep
    \/ Tick(MaxTime)

SpecTtl == Init /\ [][NextTtl]_vars

\* An external call does not come back by itself: ffmpeg hangs on the
\* upload, or no answer to the OpenAI request ever arrives.
FfmpegHangs(j) ==
    /\ pc[j] = "extract"
    /\ Goto(j, "extractHung")
    /\ UNCHANGED <<result, upload, unlinks, frameDir, frames, dirs, extracted,
                   attempts, delay, timer, stamp, analysisCache, insertedAt>>

\* Lines 173 and 177: the client is made with its API key only and the
\* request is awaited with no timer beside it.
OpenAIHangs(j) ==
    /\ pc[j] = "openai"
    /\ Goto(j, "openaiHung")
    /\ UNCHANGED <<result, upload, unlinks, frameDir, frames, dirs, extracted,
                   attempts, delay, timer, stamp, analysisCache, insertedAt>>

NextHang ==
    \/ \E inp \in TtlInputs : Submit(inp, MaxAnalyses)
    \/ \E j \in Jobs : FileType(j, FALSE)
    \/ \E j \in Jobs : Sha256(j, TRUE)
    \/ \E j \in Jobs : UnlinkHit(j)
    \/ \E j \in Jobs : KeyMoments(j)
    \/ \E j \in Jobs : Mkdir(j, TRUE)
    \/ \E j \in Jobs : FfmpegHangs(j)
    \/ \E j \in Jobs, n \in 0..MaxFrames : Extract(j, n)
    \/ \E j \in Jobs : UnlinkUpload(j)
    \/ \E j \in Jobs : OpenAIHangs(j)
    \/ \E j \in Jobs, ok \in BOOLEAN : OpenAI(j, ok)
    \/ \E j \in Jobs : Backoff(j)
    \/ \E j \in Jobs : UnlinkFrame(j)
    \/ \E j \in Jobs : RmDir(j)
    \/ \E j \in Jobs : Settle(j, TRUE, TRUE)

SpecHang == Init /\ [][NextHang]_vars

\* The cache key, line 207: requests with the same bytes, game, tier and
\* detail level have the same key, whatever else their bodies say.  Of the
\* other options, line 187, `language` is the one followed here: it goes
\* into the prompt (line 265) and not into the key.
Languages == {"en", "de"}
KeyInputs ==
    {[file |-> TRUE, fields |-> TRUE, video |-> TRUE, key |-> "h1",
      language |-> l] : l \in Languages}

NextKey ==
    \/ \E inp \in KeyInputs : Submit(inp, MaxSame)
    \/ \E j \in Jobs : FileType(j, FALSE)
    \/ \E j \in Jobs : Sha256(j, TRUE)
    \/ \E j \in Jobs : UnlinkHit(j)
    \/ \E j \in Jobs : KeyMoments(j)
    \/ \E j \in Jobs : Mkdir(j, TRUE)
    \/ \E j \in Jobs : Extract(j, MaxFrames)
    \/ \E j \in Jobs : UnlinkUpload(j)
    \/ \E j \in Jobs : OpenAI(j, TRUE)
    \/ \E j \in Jobs : UnlinkFrame(j)
    \/ \E j \in Jobs : RmDir(j)
    \/ \E j \in Jobs : Settle(j, TRUE, TRUE)

\* With the default of MAX_CONCURRENT, so that more than two requests for
\* one key are handled at a time.
SpecKey == InitDefault /\ [][NextKey]_vars

\* ------------------------------------------------------- the cache file
\* saveCache and atomicWrite up to the first await, lines 95-97 and 110-111:
\* the snapshot c is serialised, the temporary file is named after the
\* clock and fs.writeFile is called.
StartSave(p, c) ==
    /\ ncalls' = p
    /\ cpc' = [cpc EXCEPT ![p] = "open"]
    /\ cdata' = [cdata EXCEPT ![p] = JSONstringify(c)]
    /\ ctmp' = [ctmp EXCEPT ![p] = now]

\* Lines 298-314 seen from the disk: a job whose request named focus area a
\* sets its entry and calls saveCache.
Set(k, a) ==
    /\ alive /\ ncalls < MaxCalls
    /\ analysisCache' =
          [CacheSet(analysisCache, k, 1, now) EXCEPT ![k].data = randomStats(a)]
    /\ insertedAt' = [insertedAt EXCEPT ![k] = now]
    /\ StartSave(ncalls + 1, analysisCache')
    /\ UNCHANGED <<pipeVars, swept, now, alive, boots, cacheFile, tmpFile,
                   content, cfd, sigint>>

\* Lines 114-121: the sweep, which saves the cache when it removed an entry
\* (`if(removed)`, line 120).  The callback runs up to the first await of
\* atomicWrite; the timer fires again whatever becomes of that call.
SweepSave ==
    /\ alive
    /\ analysisCache' = [k \in Keys |->
          IF Expired(analysisCache[k], now) THEN NoEntry ELSE analysisCache[k]]
    /\ swept' = TRUE
    /\ analysisCache' # analysisCache => ncalls < MaxCalls
    /\ IF analysisCache' # analysisCache
       THEN StartSave(ncalls + 1, analysisCache')
       ELSE UNCHANGED <<ncalls, cpc, cdata, ctmp>>
    /\ UNCHANGED <<pipeVars, insertedAt, now, alive, boots, cacheFile,
                   tmpFile, content, cfd, sigint>>

\* Line 331: SIGINT arrives; the handler calls saveCache and awaits it.
Sigint ==
    /\ alive /\ sigint = 0 /\ ncalls < MaxCalls
    /\ StartSave(ncalls + 1, analysisCache)
    /\ sigint' = ncalls + 1
    /\ UNCHANGED <<pipeVars, analysisCache, insertedAt, swept, now, alive,
                   boots, cacheFile, tmpFile, content, cfd>>

\* fs.writeFile(tmp, data), line 97, first half: the file is opened for
\* writing, created when the name is free and truncated when it is not.
Open(p, ok) ==
    /\ alive /\ cpc[p] = "open"
    /\ IF ~ok
       THEN /\ cpc' = [cpc EXCEPT ![p] = "failed"]
            /\ UNCHANGED <<tmpFile, content, cfd>>
       ELSE LET i == IF tmpFile[ctmp[p]] = 0 THEN p ELSE tmpFile[ctmp[p]] IN
            /\ tmpFile' = [tmpFile EXCEPT ![ctmp[p]] = i]
            /\ content' = [content EXCEPT ![i] = Partial]
            /\ cfd' = [cfd EXCEPT ![p] = i]
            /\ cpc' = [cpc EXCEPT ![p] = "write"]
    /\ UNCHANGED <<pipeVars, analysisCache, insertedAt, swept, now, alive,
                   boots, cacheFile, ncalls, cdata, ctmp, sigint>>

\* fs.writeFile(tmp, data), second half: the data is written to the open
\* file, whatever name it has by now; a failed write leaves a part of it.
Write(p, ok) ==
    /\ alive /\ cpc[p] = "write"
    /\ content' = [content EXCEPT ![cfd[p]] =
          IF ok THEN Whole(cdata[p]) ELSE Partial]
    /\ cpc' = [cpc EXCEPT ![p] = IF ok THEN "rename" ELSE "failed"]
    /\ UNCHANGED <<pipeVars, analysisCache, insertedAt, swept, now, alive,
                   boots, cacheFile, tmpFile, ncalls, cdata, ctmp, cfd,
                   sigint>>

\* fs.rename(tmp, file), line 97: the name CACHE_FILE is given to the inode
\* of tmp in one step; with no file of that name left the call fails and
\* saveCache logs the error (line 112).
Rename(p) ==
    /\ alive /\ cpc[p] = "rename"
    /\ IF tmpFile[ctmp[p]] = 0
       THEN /\ cpc' = [cpc EXCEPT ![p] = "failed"]
            /\ UNCHANGED <<cacheFile, tmpFile>>
       ELSE /\ cacheFile' = tmpFile[ctmp[p]]
            /\ tmpFile' = [tmpFile EXCEPT ![ctmp[p]] = 0]
            /\ cpc' = [cpc EXCEPT ![p] = "done"]
    /\ UNCHANGED <<pipeVars, analysisCache, insertedAt, swept, now, alive,
                   boots, content, ncalls, cdata, ctmp, cfd, sigint>>

\* The process is gone: its memory and its calls in flight with it.
Gone ==
    /\ alive' = FALSE
    /\ analysisCache' = EmptyCache
    /\ cpc' = [p \in Calls |->
          IF cpc[p] \in {"open", "write", "rename"} THEN "dead" ELSE cpc[p]]
    /\ sigint' = 0
    /\ UNCHANGED <<pipeVars, insertedAt, swept, now, boots, cacheFile,
                   tmpFile, content, ncalls, cdata, ctmp, cfd>>

\* Line 331: the saveCache the SIGINT handler awaited is over, the process
\* exits.
Exit ==
    /\ alive /\ sigint # 0 /\ cpc[sigint] \in {"done", "failed"}
    /\ Gone

\* The process is killed, or the machine stops.
Crash ==
    /\ alive
    /\ Gone

\* Variant of loadCache without the try/catch: a file that does not parse
\* ends the process.
loadCache_noCatch(exists, c) ==
    IF ~exists THEN [cache |-> EmptyCache, alive |-> TRUE]
    ELSE IF c.ok THEN [cache |-> JSONparse(c.data), alive |-> TRUE]
    ELSE [cache |-> EmptyCache, alive |-> FALSE]

\* loadCache, lines 99-108: with no file the Map stays empty; a file that
\* parses replaces the Map; an error of readFile or JSON.parse is logged
\* and the Map stays empty.
loadCache(exists, c) ==
    IF exists /\ c.ok
    THEN [cache |-> JSONparse(c.data), alive |-> TRUE]
    ELSE [cache |-> EmptyCache, alive |-> TRUE]

\* The process is started again, lines 94 and 108.
Restart ==
    /\ ~alive /\ boots < MaxBoots
    /\ boots' = boots + 1
    /\ LET l == loadCache(cacheFile # 0,
                          IF cacheFile = 0 THEN Partial
                          ELSE content[cacheFile]) IN
        /\ analysisCache' = l.cache
        /\ alive' = l.alive
    /\ swept' = FALSE
    /\ UNCHANGED <<pipeVars, insertedAt, now, cacheFile, tmpFile, content,
                   ncalls, cpc, cdata, ctmp, cfd, sigint>>

NextPersist ==
    \/ \E k \in Keys, a \in FocusAreas : Set(k, a)
    \/ SweepSave
    \/ Sigint
    \/ \E p \in Calls, ok \in BOOLEAN : Open(p, ok)
    \/ \E p \in Calls, ok \in BOOLEAN : Write(p, ok)
    \/ \E p \in Calls : Rename(p)
    \/ Exit
    \/ Crash
    \/ Restart
    \/ Tick(MaxClock)

SpecPersist == Init /\ [][NextPersist]_vars

\* ------------------------------------------- the build of unnamed/part_006
\* In this build handleAnalysis hashes the upload and looks the cache up
\* before its first await, ffmpeg's failure rejects extractFrames, OpenAI is
\* called once, and saveCache writes CACHE_FILE in place and synchronously.
\* Its queue (part_006 lines 73-112) is the one of server.js.

\* POST /analyze, part_006 lines 368-370, with a worker slot free: enqueue,
\* processNext and handleAnalysis up to its first await (lines 196-234).
\* hashOk tells whether hashFile could read the upload.
Submit006(inp, hashOk) ==
    /\ alive /\ submitted < MaxAnalyses /\ ~MustWait(running)
    /\ LET j == submitted + 1
           hit == CacheHas(analysisCache, inp.key)
           goes == ~MissingFields(inp) /\ hashOk /\ ~hit
       IN
        /\ submitted' = j
        /\ input' = [input EXCEPT ![j] = inp]
        /\ running' = running + 1
        /\ order' = Append(order, j)
        /\ hitAtSubmit' = [hitAtSubmit EXCEPT ![j] =
              ~MissingFields(inp) /\ hit]
        /\ pc' = [pc EXCEPT ![j] = IF goes THEN "keyMoments6" ELSE "settle"]
        /\ result' = [result EXCEPT ![j] =
              IF MissingFields(inp) THEN [kind |-> "missing", by |-> 0]
              ELSE IF ~hashOk THEN Thrown
              ELSE IF hit
              THEN [kind |-> "cached", by |-> analysisCache[inp.key].by]
              ELSE @]
        /\ upload' = [upload EXCEPT ![j] =
              IF ~inp.file THEN "none"
              ELSE IF inp.fields /\ hashOk /\ hit THEN "deleted"
              ELSE "disk"]
        /\ unlinks' = [unlinks EXCEPT ![j] =
              IF ~MissingFields(inp) /\ hashOk /\ hit THEN 1 ELSE 0]
        /\ extracted' = [extracted EXCEPT ![j] = goes]
    /\ UNCHANGED <<queue, frameDir, frames, dirs, attempts,
                   delay, timer, sent, position,
                   promise, stamp, analysisCache, insertedAt, swept, now,
                   maxConcurrent, disconnected, sideVars>>
    /\ UNCHANGED diskVars

\* part_006 lines 234-244: scene detection ended (its failure resolves to
\* no key moment); the scratch directory is named after the clock and
\* made, and ffmpeg is started to extract the frames.
KeyMoments006(j, ok) ==
    /\ alive /\ pc[j] = "keyMoments6"
    /\ IF ~ok
       THEN Return(j, Thrown) /\ UNCHANGED dirs
       ELSE /\ Goto(j, "extract6")
            /\ frameDir' = [frameDir EXCEPT ![j] = now]
            /\ dirs' = [dirs EXCEPT ![now] = IF @ = Absent THEN {} ELSE @]
            /\ UNCHANGED <<result, frames, stamp>>
    /\ UNCHANGED <<upload, unlinks, extracted, attempts,
                   delay, timer, analysisCache,
                   insertedAt>>

\* extractFrames, part_006 lines 138-150, and lines 244-299: ffmpeg ended
\* having written n frames.  On its error the promise is rejected and
\* handleAnalysis throws at line 244.  Otherwise the directory is listed (a
\* directory removed meanwhile makes readdirSync throw in the callback of
\* exec, which ends the process), the upload is unlinked and OpenAI is
\* called.
Extract006(j, ok, n) ==
    /\ alive /\ pc[j] = "extract6"
    /\ LET d == frameDir[j]
           left == IF dirs[d] = Absent THEN Absent ELSE dirs[d] \cup (1..n)
       IN
        IF ~ok
        THEN /\ dirs' = [dirs EXCEPT ![d] = left]
             /\ Return(j, Thrown)
             /\ UNCHANGED <<upload, unlinks, attempts, delay, timer>>
        ELSE IF dirs[d] = Absent
        THEN /\ alive' = FALSE
             /\ UNCHANGED <<pipeVars, swept, now, boots, cacheFile, tmpFile,
                            content, ncalls, cpc, cdata, ctmp, cfd, sigint>>
        ELSE /\ dirs' = [dirs EXCEPT ![d] = left]
             /\ frames' = [frames EXCEPT ![j] = left]
             /\ upload' = [upload EXCEPT ![j] = "deleted"]
             /\ unlinks' = [unlinks EXCEPT ![j] = @ + 1]
             /\ attempts' = [attempts EXCEPT ![j] = 1]
             /\ UNCHANGED <<delay, timer>>
             /\ Goto(j, "openai6")
             /\ UNCHANGED <<result, frameDir, stamp>>
    /\ UNCHANGED <<extracted, analysisCache, insertedAt>>

\* saveCache, part_006 lines 51-53: writeFileSync creates or truncates
\* CACHE_FILE and writes the snapshot c into it; when it fails it leaves a
\* part of it and throws.
saveCache006(c, ok) ==
    LET i == IF cacheFile = 0 THEN 1 ELSE cacheFile IN
    /\ cacheFile' = i
    /\ content' = [content EXCEPT ![i] =
          IF ok THEN Whole(JSONstringify(c)) ELSE Partial]

\* part_006 lines 299-359: the one OpenAI request ended.  When it failed
\* handleAnalysis throws; otherwise the frames and the scratch directory
\* are removed, the entry is set and saveCache is called, whose exception
\* is the one of handleAnalysis.
OpenAI006(j, ok, saved) ==
    /\ alive /\ pc[j] = "openai6"
    /\ IF ~ok
       THEN /\ Return(j, Thrown)
            /\ UNCHANGED <<dirs, analysisCache, insertedAt>>
       ELSE /\ dirs' = [dirs EXCEPT ![frameDir[j]] = Absent]
            /\ analysisCache' = CacheSet(analysisCache, input[j].key, j, 0)
            /\ insertedAt' = [insertedAt EXCEPT ![input[j].key] = now]
            /\ saveCache006(analysisCache', saved)
            /\ Returned(j, IF saved THEN Completed(j) ELSE Thrown)
            /\ UNCHANGED <<alive, boots, tmpFile, ncalls, cpc, cdata, ctmp,
                           cfd, sigint>>
    /\ UNCHANGED <<upload, unlinks, extracted, attempts, delay, timer>>

\* Time passes; this build has no sweep.
Tick006 ==
    /\ now < MaxClock
    /\ now' = now + 1
    /\ UNCHANGED <<pipeVars, analysisCache, insertedAt, swept, diskVars>>

Next006 ==
    \/ \E inp \in Inputs, hashOk \in BOOLEAN : Submit006(inp, hashOk)
    \/ \E j \in Jobs, ok \in BOOLEAN : KeyMoments006(j, ok)
    \/ \E j \in Jobs, ok \in BOOLEAN, n \in 0..MaxFrames :
          Extract006(j, ok, n)
    \/ \E j \in Jobs, ok \in BOOLEAN, saved \in BOOLEAN :
          OpenAI006(j, ok, saved)
    \/ \E j \in Jobs, json1 \in BOOLEAN, json2 \in BOOLEAN :
          alive /\ Settle(j, json1, json2)
    \/ Tick006

Spec006 == Init /\ [][Next006]_vars

\* ------------------------------------------------------------ properties
Range(q) == {q[i] : i \in DOMAIN q}

\* A job holds a worker slot from the call of jobFn to the finally handler.
Holding(j) == pc[j] \notin {"idle", "queued", "done"}

\* The caller of j was sent the queued notice by enqueue.
Noticed(j) == position[j] > 0

\* C1: in every reachable state the counter running, and the number of
\* jobs whose jobFn has been called and whose finally handler has not run,
\* is at most MAX_CONCURRENT.
C1_ConcurrencyCeiling ==
    /\ running <= MAX_CONCURRENT
    /\ Cardinality({j \in Jobs : Holding(j)}) <= MAX_CONCURRENT

\* The ceiling is reached while a job waits.
C1_Witness == running = MAX_CONCURRENT /\ Len(queue) > 0

\* C2 (as claimed): a submission whose key is in the cache when it arrives
\* never waits in the queue and never holds a worker slot.
C2_HitTakesNoSlot ==
    \A j \in Jobs : hitAtSubmit[j] => ~Holding(j) /\ j \notin Range(queue)

\* C3: jobs are started in the order they were appended to the queue (the
\* job numbers are the arrival order): the started jobs are in increasing
\* order, every waiting job arrived after every started one, and a started
\* job is never in the queue again.
C3_Fifo ==
    /\ \A a, b \in DOMAIN order : a < b => order[a] < order[b]
    /\ \A i \in DOMAIN queue :
          /\ pc[queue[i]] = "queued"
          /\ \A a \in DOMAIN order : order[a] < queue[i]
    /\ \A a, b \in DOMAIN queue : a < b => queue[a] < queue[b]

\* Two jobs waited one behind the other and both were started.
C3_Witness ==
    \E a, b \in Jobs :
        /\ position[a] = 1 /\ position[b] = 2
        /\ a \in Range(order) /\ b \in Range(order)

\* C4: a submission that arrives while running = MAX_CONCURRENT is appended
\* to the tail of the queue and is told, in the same step, the number of
\* jobs then waiting, itself included.
C4_QueuedPosition ==
    [][\A j \in Jobs :
          (submitted' = j /\ submitted = j - 1 /\ running = MAX_CONCURRENT) =>
              /\ queue' = Append(queue, j)
              /\ sent'[j] = "queued"
              /\ position'[j] = Len(queue) + 1]_vars

\* A caller was told position 1 and another one position 2.
C4_Witness ==
    \E a, b \in Jobs :
        /\ sent[a] = "queued" /\ position[a] = 1
        /\ sent[b] = "queued" /\ position[b] = 2

\* C5 (as claimed): the queue never holds more than MAX_QUEUE jobs.
C5_QueueBounded == Len(queue) <= MAX_QUEUE

\* C6 (as claimed): a caller that was sent the queued notice has been sent
\* the result or the failure of its job once the job is over.
C6_NoticedGetsResult ==
    \A j \in Jobs :
        (Noticed(j) /\ pc[j] = "done") => sent[j] \in {"result", "error"}

\* C7: running is the number of jobs whose jobFn has been called and whose
\* finally handler has not run yet, whatever the job returned or threw and
\* whether or not writing the response threw.
C7_SlotReleased == running = Cardinality({j \in Jobs : Holding(j)})

\* One job is over after a throw whose error response could not be
\* written, another one after a result.
C7_Witness ==
    \E a, b \in Jobs :
        /\ pc[a] = "done" /\ result[a].kind = "throw" /\ sent[a] = "none"
        /\ pc[b] = "done" /\ result[b].kind = "ok"

\* C8: between two steps no job waits while a worker slot is free.
C8_NoIdleSlot == running < MAX_CONCURRENT => queue = <<>>

\* A job that waited was started by the end of another one.
C8_Witness ==
    \E a, b \in Jobs :
        pc[a] = "done" /\ Noticed(b) /\ Holding(b) /\ running = MAX_CONCURRENT

\* C9: a job whose key has an entry when the lookup is made takes the hit
\* path, and when the entry is still there after the unlink the job returns
\* that entry, marked cached, without ffmpeg or OpenAI having been called
\* for it; an entry is the result of a job that succeeded on the same key.
C9_CachedResult ==
    /\ [](\A j \in Jobs :
            (result[j].kind = "cached" /\ result[j].by # 0) =>
                /\ result[result[j].by].kind = "ok"
                /\ input[result[j].by].key = input[j].key)
    /\ [][\A j \in Jobs :
            /\ (/\ pc[j] = "sha256"
                /\ pc'[j] \notin {"sha256", "settle"}
                /\ analysisCache[input[j].key] # NoEntry) =>
                    pc'[j] = "unlinkHit"
            /\ (/\ pc[j] = "unlinkHit"
                /\ pc'[j] = "settle"
                /\ analysisCache[input[j].key] # NoEntry) =>
                    /\ result'[j] = [kind |-> "cached",
                                     by |-> analysisCache[input[j].key].by]
                    /\ ~extracted'[j]
                    /\ attempts'[j] = 0]_vars

\* A request that found its key cached when it arrived is over with the
\* cached entry.
C9_Witness ==
    \E j \in Jobs :
        /\ hitAtSubmit[j] /\ pc[j] = "done"
        /\ result[j].kind = "cached" /\ result[j].by # 0

\* C10 (as claimed): when handleAnalysis is over, the uploaded file of the
\* request has been unlinked exactly once.
C10_UploadDeletedOnce ==
    \A j \in Jobs :
        (input[j].file /\ pc[j] \in {"settle", "done"}) =>
            unlinks[j] = 1 /\ upload[j] = "deleted"

\* C11 (as claimed): when handleAnalysis is over, the scratch directory it
\* named is gone from the disk, with the frame files in it.
C11_ScratchRemoved ==
    [][\A j \in Jobs :
          (pc[j] # "settle" /\ pc'[j] = "settle" /\ frameDir[j] # -1) =>
              dirs'[frameDir[j]] = Absent]_vars

\* C18: no job makes more than `tries` (3) OpenAI requests; a failed request
\* is followed by the backoff exactly when fewer than 3 have been made and
\* ends the job with the throw when it was the third; a successful request
\* goes on to the cleanup without another request; the backoff is followed
\* by one more request.
C18_AtMostThreeTries ==
    /\ [](\A j \in Jobs : attempts[j] <= 3)
    /\ [][\A j \in Jobs :
            /\ (pc[j] = "openai" /\ pc'[j] = "backoff") => attempts[j] < 3
            /\ (pc[j] = "openai" /\ pc'[j] = "settle") =>
                   attempts[j] = 3 /\ result'[j].kind = "throw"
            /\ (pc[j] = "openai" /\ pc'[j] \in {"rmDir", "unlinkFrame"}) =>
                   attempts'[j] = attempts[j]
            /\ (pc[j] = "backoff" /\ pc'[j] # "backoff") =>
                   pc'[j] = "openai" /\ attempts'[j] = attempts[j] + 1]_vars

\* One job is over after three failed requests, another one succeeded at
\* its second request.
C18_Witness ==
    \E a, b \in Jobs :
        /\ pc[a] = "done" /\ attempts[a] = 3 /\ result[a].kind = "throw"
        /\ pc[b] = "done" /\ attempts[b] = 2 /\ result[b].kind = "ok"

\* C19: every cache entry is the result of a job that returned successfully
\* on that key, and an entry appears or changes only in the step in which
\* that job returns; a job that threw has written no entry.
C19_CacheOnlyOnSuccess ==
    /\ [](\A k \in Keys :
            analysisCache[k] # NoEntry =>
                /\ result[analysisCache[k].by].kind = "ok"
                /\ input[analysisCache[k].by].key = k)
    /\ [][\A k \in Keys :
            (analysisCache'[k] # analysisCache[k]
             /\ analysisCache'[k] # NoEntry) =>
                LET j == analysisCache'[k].by IN
                    /\ pc[j] = "rmDir" /\ pc'[j] = "settle"
                    /\ result'[j].kind = "ok"]_vars

\* A job is over after three failed requests and its key has no entry.
C19_Witness ==
    \E j \in Jobs :
        /\ pc[j] = "done" /\ attempts[j] = 3 /\ result[j].kind = "throw"
        /\ analysisCache[input[j].key] = NoEntry

\* C20 (as claimed): a request whose upload is no video never waits in the
\* queue, is never sent the queued notice, and neither ffmpeg nor OpenAI is
\* called for it.
C20_InvalidFailsFast ==
    \A j \in Jobs :
        (input[j].file /\ input[j].fields /\ ~input[j].video) =>
            /\ j \notin Range(queue)
            /\ sent[j] # "queued"
            /\ ~extracted[j]
            /\ attempts[j] = 0

\* C15 (as claimed): an entry set at time T is not removed before T + ttl,
\* and is no longer in the cache later than T + ttl plus the time between
\* two sweeps (at most one unit of the clock).
C15_TtlFromInsertion ==
    /\ [][\A k \in Keys :
            (analysisCache[k] # NoEntry /\ analysisCache'[k] = NoEntry) =>
                now >= insertedAt[k] + CACHE_TTL_DAYS]_vars
    /\ [](\A k \in Keys :
            analysisCache[k] # NoEntry =>
                now <= insertedAt[k] + CACHE_TTL_DAYS + 1)

\* C15 (amended): the age of an entry counts from its timestamp, taken when
\* the response data is built, at or before the set at time T.  An entry is
\* not removed at or before timestamp + ttl, and is no longer in the cache
\* later than T + ttl plus the time between two sweeps.
C15_TtlFromTimestamp ==
    /\ [][\A k \in Keys :
            (analysisCache[k] # NoEntry /\ analysisCache'[k] = NoEntry) =>
                now > analysisCache[k].ts + CACHE_TTL_DAYS]_vars
    /\ [](\A k \in Keys :
            analysisCache[k] # NoEntry =>
                /\ analysisCache[k].ts <= insertedAt[k]
                /\ now <= insertedAt[k] + CACHE_TTL_DAYS + 1)

\* An entry has been swept: the job that wrote it is over and its key has
\* no entry; and the clock went past the time set plus ttl plus a sweep.
C15_Witness ==
    \E j \in Jobs :
        /\ pc[j] = "done" /\ result[j].kind = "ok" /\ result[j].by = j
        /\ analysisCache[input[j].key] = NoEntry
        /\ now > insertedAt[input[j].key] + CACHE_TTL_DAYS + 1

\* A call of saveCache that has opened its temporary file and has not yet
\* renamed it or failed.
Writing(p) == cpc[p] \in {"write", "rename"}

\* C12 (as claimed): whenever the process may be killed, the file
\* CACHE_FILE, when there is one, holds a complete snapshot of the cache.
C12_DurableComplete == cacheFile # 0 => content[cacheFile].ok

\* C13 (as claimed): two calls of saveCache under way never have the same
\* temporary file open, and once no call is under way the file CACHE_FILE,
\* when there is one, holds a complete snapshot.
C13_OwnTmpFile ==
    /\ \A p, q \in Calls :
          (p # q /\ Writing(p) /\ Writing(q)) => cfd[p] # cfd[q]
    /\ ((\A p \in Calls : cpc[p] \notin {"open", "write", "rename"})
        /\ cacheFile # 0) => content[cacheFile].ok

\* C14: when the process starts with no file CACHE_FILE, or with one that
\* does not parse, the cache is empty after loadCache and the process runs.
C14_RestoreNonFatal ==
    [][(boots' # boots
        /\ (IF cacheFile = 0 THEN TRUE ELSE ~content[cacheFile].ok)) =>
            (analysisCache' = EmptyCache /\ alive')]_vars

\* The process was started again on a file that does not parse: it runs,
\* with an empty cache and no call of saveCache made since.
C14_Witness ==
    /\ boots > 0 /\ alive
    /\ cacheFile # 0 /\ ~content[cacheFile].ok
    /\ analysisCache = EmptyCache
    /\ \A p \in Calls : cpc[p] \notin {"open", "write", "rename"}

\* C16 (as claimed): a job that has set its entry in the cache, and so was
\* analysed successfully, has not thrown, whatever became of saveCache.
C16_SaveFailureHarmless ==
    \A k \in Keys :
        analysisCache[k] # NoEntry =>
            result[analysisCache[k].by].kind # "throw"

\* C17 (as claimed): the end of the frame extraction, failed or not, never
\* ends the job: handleAnalysis goes on to the OpenAI request.
C17_ExtractionNeverAborts ==
    [][\A j \in Jobs :
          pc[j] \in {"extract", "extract6"} => pc'[j] # "settle"]_vars

\* C21 (as claimed): a request answered from the cache is answered with the
\* result of a job whose request had the same language.
C21_KeyCoversOptions ==
    \A j \in Jobs :
        (result[j].kind = "cached" /\ result[j].by # 0) =>
            input[result[j].by].language = input[j].language

\* The jobs that missed the cache on key k and went on to the analysis.
Executed(k) == {j \in Jobs : input[j].key = k /\ extracted[j]}

C23_HitHasPayload ==
    \A j \in Jobs : result[j].kind = "cached" => result[j].by # 0

\* C24 (as claimed): two jobs that have named their scratch directory and
\* have not returned yet have different directories.
C24_OwnScratchDir ==
    \A a, b \in Jobs :
        (a # b /\ frameDir[a] # -1 /\ frameDir[b] # -1) =>
            frameDir[a] # frameDir[b]

\* C25 (as claimed): a job whose client closed the connection while it was
\* waiting is not in the queue and is never given a worker slot.
C25_DisconnectedNotDispatched ==
    \A j \in Jobs :
        disconnected[j] => (j \notin Range(queue) /\ pc[j] = "queued")

\* C26 (as claimed): a job that holds a worker slot can always take a step,
\* also when an external call of it does not come back by itself.
C26_RunningJobCanMove ==
    \A j \in Jobs :
        Holding(j) => ENABLED (NextHang /\ pc'[j] # pc[j])

C29_CachedBeforeDelivered ==
    [][\A j \in Jobs :
          (sent[j] # "result" /\ sent'[j] = "result"
           /\ result[j].kind = "ok") =>
              analysisCache'[input[j].key] # NoEntry]_vars

\* A caller has received the result of its own analysis, and the entry
\* that job wrote is in the cache.
C29_Witness ==
    \E j \in Jobs :
        /\ pc[j] = "done" /\ sent[j] = "result" /\ result[j].kind = "ok"
        /\ analysisCache[input[j].key].by = j

\* C30: the entry of a key changes in two kinds of step only.  It is
\* removed in a step of the sweep, which is no step of any request, and
\* only when it is older than the TTL; or it is set by a job with that key
\* in the step in which the job returns its response data.
C30_OnlySweepRemoves ==
    [][\A k \in Keys :
          analysisCache'[k] # analysisCache[k] =>
              \/ /\ analysisCache'[k] = NoEntry
                 /\ pc' = pc /\ submitted' = submitted
                 /\ now > analysisCache[k].ts + CACHE_TTL_DAYS
              \/ \E j \in Jobs :
                    /\ pc[j] = "rmDir" /\ pc'[j] = "settle"
                    /\ input[j].key = k
                    /\ analysisCache'[k].by = j]_vars

\* Two jobs have set the entries of two keys; the older entry has been
\* swept and the other one is still there.
C30_Witness ==
    \E a, b \in Jobs :
        /\ result[a].kind = "ok" /\ result[b].kind = "ok"
        /\ input[a].key # input[b].key
        /\ analysisCache[input[a].key] = NoEntry
        /\ analysisCache[input[b].key].by = b

\* C31: a sweep removes exactly the entries whose timestamp is more than the
\* TTL behind the clock and calls saveCache if and only if it removed one; a
\* call of saveCache that fails does not end the process, and while the
\* process runs the sweep can run again.
C31_JanitorTick ==
    /\ [][(~swept /\ swept') =>
            /\ \A k \in Keys :
                  analysisCache'[k] =
                     IF analysisCache[k] # NoEntry
                        /\ now - analysisCache[k].ts > CACHE_TTL_DAYS
                     THEN NoEntry ELSE analysisCache[k]
            /\ (ncalls' = ncalls + 1) <=>
                  (\E k \in Keys : analysisCache'[k] # analysisCache[k])
            /\ ncalls' \in {ncalls, ncalls + 1}
            /\ alive']_vars
    /\ [][\A p \in Calls :
            (cpc[p] # "failed" /\ cpc'[p] = "failed") => alive' = alive]_vars
    /\ [](alive /\ ncalls < MaxCalls => ENABLED SweepSave)

\* A sweep has removed an entry, the saveCache it called has failed and the
\* process runs.
C31_Witness ==
    /\ alive /\ boots = 0 /\ swept
    /\ \E k \in Keys : insertedAt[k] # 0 /\ analysisCache[k] = NoEntry
    /\ \E p \in Calls :
          cpc[p] = "failed" /\ ctmp[p] = now
          /\ cdata[p] = JSONstringify(analysisCache)

\* C32 (as claimed): the text saveCache writes, read back by loadCache,
\* gives a Map with the keys and the entries of the Map that was saved.
C32_RoundTripLossless ==
    [][ncalls' = ncalls + 1 =>
          loadCache(TRUE, Whole(cdata'[ncalls'])).cache = analysisCache']_vars

\* C33: openaiRetry waits 800 ms before the second request and 1600 ms
\* before the third, each wait twice the one before; it waits only after a
\* failed request that was not the last, so not after the third failure and
\* not after a success.
C33_ExponentialBackoff ==
    /\ [](\A j \in Jobs :
            /\ timer[j] # 0 <=> pc[j] = "backoff"
            /\ pc[j] = "backoff" =>
                  \/ attempts[j] = 1 /\ timer[j] = 800
                  \/ attempts[j] = 2 /\ timer[j] = 1600)
    /\ [][\A j \in Jobs :
            /\ (timer[j] = 0 /\ timer'[j] # 0) =>
                  /\ pc[j] = "openai" /\ attempts[j] < 3
                  /\ result'[j] = NoResult
            /\ (/\ pc[j] = "openai"
                /\ pc'[j] \in {"unlinkFrame", "rmDir", "settle"})
                  => timer'[j] = 0
            /\ (timer[j] # 0 /\ timer'[j] = 0) =>
                  pc'[j] = "openai" /\ attempts'[j] = attempts[j] + 1]_vars

\* The second request of a job has failed and the job waits for the third.
C33_Witness ==
    \E j \in Jobs : pc[j] = "backoff" /\ attempts[j] = 2 /\ timer[j] = 1600

\* C34: at most one body is written on the response of a request: once the
\* queued notice, a result or an error was sent, nothing else is, whatever
\* the job returns or throws.
C34_OneResponse ==
    [][\A j \in Jobs : sent[j] # "none" => sent'[j] = sent[j]]_vars

\* A request that was sent the queued notice has ended with an exception,
\* and another with a result, and both still have the notice only; a third
\* got its result as its one body.
C34_Witness ==
    \E a, b, c \in Jobs :
        /\ pc[a] = "done" /\ result[a].kind = "throw" /\ sent[a] = "queued"
        /\ pc[b] = "done" /\ result[b].kind = "ok" /\ sent[b] = "queued"
        /\ pc[c] = "done" /\ result[c].kind = "ok" /\ sent[c] = "result"

\* C35 (as claimed): when every call of saveCache that was started has
\* ended, with its file renamed, the cache file holds the text of the Map as
\* it is in memory: the snapshot of an earlier call never replaces the one
\* of a later call.
C35_LastSnapshotWins ==
    (/\ alive /\ boots = 0 /\ ncalls > 0
     /\ \A p \in 1..ncalls : cpc[p] = "done")
        => /\ cacheFile # 0
           /\ content[cacheFile] = Whole(JSONstringify(analysisCache))

\* C36 (as claimed): the rejection of a job's promise is observed where the
\* request was submitted: no rejection is left unhandled and the process
\* keeps running, with its other running and queued jobs.
C36_FailureContained ==
    alive /\ \A j \in Jobs : route[j] # "unhandled"

\* The requests of address ip let through at a time in [a, a + w).
AdmittedIn(ip, a, w) ==
    {i \in DOMAIN admitted[ip] :
        a <= admitted[ip][i] /\ admitted[ip][i] < a + w}

\* The requests of address ip let through so far and younger than the
\* window at time t.
AdmittedYoung(ip, t) ==
    {i \in DOMAIN admitted[ip] : t - admitted[ip][i] < RATE_WINDOW_MS}

\* C37 (as claimed): with RATE_MAX = 20 in both builds, at most RATE_MAX
\* requests of one address are let through in any window; a request is
\* answered 429 exactly when RATE_MAX requests of its address were let
\* through less than a window ago.
C37_RateMaxTwenty ==
    /\ [](\A ip \in IPs, a \in Times :
            Cardinality(AdmittedIn(ip, a, RATE_WINDOW_MS)) <= RATE_MAX)
    /\ [][nreq' # nreq =>
            (verdict'.code = 429 <=>
                Cardinality(AdmittedYoung(verdict'.ip, now')) >= RATE_MAX)]_vars

\* C37 (amended): the same with the RATE_MAX of the build, 20 in server.js
\* and 10 in part_006; a request answered 429 is not recorded, and a
\* request changes the timestamps of its own address only.
C37_RateLimit ==
    /\ [](\A ip \in IPs, a \in Times :
            Cardinality(AdmittedIn(ip, a, RATE_WINDOW_MS)) <= rateMax)
    /\ [][nreq' # nreq =>
            /\ verdict'.code = 429 <=>
                  Cardinality(AdmittedYoung(verdict'.ip, now')) >= rateMax
            /\ verdict'.code = 429 =>
                  rateBuckets' = rateBuckets /\ admitted' = admitted
            /\ \A ip \in IPs \ {verdict'.ip} :
                  rateBuckets'[ip] = rateBuckets[ip]
                  /\ admitted'[ip] = admitted[ip]]_vars

\* In the build of server.js an address has used its budget and was
\* answered 429, the other address was let through after that, and the
\* first address was let through again once its requests had aged.
C37_Witness ==
    /\ rateMax = RATE_MAX
    /\ verdict = [ip |-> "ip1", at |-> now, code |-> 200]
    /\ Len(admitted["ip1"]) = RATE_MAX + 1
    /\ Len(admitted["ip2"]) = 1
    /\ nreq = RATE_MAX + 3

\* The confirm requests that passed the lookup of token t: the upload of t
\* is, or was, analysed for them.
Analysing(t) ==
    {c \in Confirms :
        confirmToken[c] = t /\ confirmPc[c] # "idle" /\ confirmRes[c] # "400"}

\* The confirm requests that are at work on the upload of token t.
Processing(t) ==
    {c \in Confirms :
        confirmToken[c] = t
        /\ confirmPc[c] \in {"duration", "extract", "keyMoments"}}

\* C38 (as claimed): the upload of a token is analysed at most once and at
\* most one confirm request of a token is answered with an analysis, also
\* with two such requests in flight; a confirm request that arrives after
\* the expiry time of its token is answered 400 and runs no analysis.
C38_TokenSingleUse ==
    /\ [](\A t \in Tokens :
            /\ Cardinality(Analysing(t)) <= 1
            /\ Cardinality({c \in Confirms :
                  confirmToken[c] = t /\ confirmRes[c] = "success"}) <= 1)
    /\ [][\A c \in Confirms :
            (/\ confirmPc[c] = "idle" /\ confirmPc'[c] # "idle"
             /\ tokenStore[confirmToken'[c]].live
             /\ now > tokenStore[confirmToken'[c]].expiresAt)
                => confirmPc'[c] = "done" /\ confirmRes'[c] = "400"]_vars

\* C39 (as claimed): once the cleanup timer of a token has fired and no
\* confirm request is at work on it, the token is out of the store, its
\* upload is deleted and its frame directory is gone; and the timer never
\* deletes the upload while a confirm request is at work on it.
C39_TokenCleanedUp ==
    /\ [](\A t \in Tokens :
            (t <= issued /\ tokenTimer[t] = 0 /\ Analysing(t) \ 
               {c \in Confirms : confirmPc[c] = "done"} = {}) =>
                /\ ~tokenStore[t].live
                /\ tokenFile[t] = "deleted"
                /\ tokenDir[t] = "absent")
    /\ [][\A t \in Tokens :
            (tokenTimer[t] # 0 /\ tokenTimer'[t] = 0 /\ Processing(t) # {})
                => tokenFile'[t] = tokenFile[t]]_vars

====
